---- MODULE Spec2Model ----
(***************************************************************************)
(* Parent selection operators of pygad.utils.parent_selection.              *)
(*                                                                          *)
(* One selector call is one action.  The state before the call holds the    *)
(* GA instance (population, K_tournament, num_parents_mating, sol_per_pop)  *)
(* and the arguments of the call (fitness, num_parents); the state after    *)
(* it holds what the call returned or raised.                               *)
(*                                                                          *)
(* Arrays and lists are sequences; the values they hold are the 0-based     *)
(* indices of the Python code, read with At(s, i).                          *)
(*                                                                          *)
(* Real numbers are exact.  A number is a pair <<hi, lo>> standing for      *)
(*     hi * 99999999999 + lo / den                                          *)
(* where den is the denominator chosen for the call, so that the sentinel   *)
(* 99999999999 of the cumulative wheel is <<1, 0>> and a probability is     *)
(* <<0, lo>>.  lo / den stays far below 99999999999 in every state, so the  *)
(* order and the sum of numbers are those of the pairs.                     *)
(***************************************************************************)
EXTENDS Integers, Sequences, FiniteSets, TLC

VARIABLES
    population,             \* self.population: a sequence of gene rows
    K_tournament,           \* self.K_tournament
    num_parents_mating,     \* self.num_parents_mating
    sol_per_pop,            \* self.sol_per_pop
    fitness,                \* argument: a vector, or a matrix (one row per solution)
    fitness_ndim,           \* fitness.ndim: 1 for a vector, 2 for a matrix
    num_parents,            \* argument
    selector,               \* the selector that was called, "none" before the call
    outcome,                \* "pending", "returned" or the exception raised
    parents,                \* the returned parents array (<<>> if none)
    parents_indices,        \* the returned indices (<<>> if none)
    probs_in,               \* the probability vector the wheel was built from
    probs,                  \* the local array named probs, at the end of the call
    probs_start,            \* the wheel: start of each range
    probs_end,              \* the wheel: end of each range
    order,                  \* the order in which the wheel assigned its ranges
    den,                    \* the denominator of the numbers of this call
    rand,                   \* the random values drawn, in drawing order
    pareto_fronts,          \* nsga2.non_dominated_sorting: the fronts
    solutions_fronts_indices, \* nsga2.non_dominated_sorting: front of each solution
    crowding                \* nsga2.crowding_distance of each solution

vars == <<population, K_tournament, num_parents_mating, sol_per_pop, fitness,
          fitness_ndim, num_parents, selector, outcome, parents, parents_indices, probs_in,
          probs, probs_start, probs_end, order, den, rand, pareto_fronts,
          solutions_fronts_indices, crowding>>

instance_vars == <<population, K_tournament, num_parents_mating, sol_per_pop>>

(***************************************************************************)
(* Sequences read as 0-based arrays.                                        *)
(***************************************************************************)
At(s, i) == s[i + 1]

Range0(n) == 0 .. (n - 1)

RECURSIVE Reverse(_)
Reverse(s) == IF s = <<>> THEN <<>> ELSE Append(Reverse(Tail(s)), Head(s))

RECURSIVE SumSeq(_)
SumSeq(s) == IF s = <<>> THEN 0 ELSE Head(s) + SumSeq(Tail(s))

Abs(x) == IF x < 0 THEN -x ELSE x

Elems(s) == {s[i] : i \in 1..Len(s)}

Min(S) == CHOOSE x \in S : \A y \in S : x <= y

(***************************************************************************)
(* Numbers.                                                                 *)
(***************************************************************************)
Zero == <<0, 0>>

NumAdd(a, b) == <<a[1] + b[1], a[2] + b[2]>>

NumSub(a, b) == <<a[1] - b[1], a[2] - b[2]>>

NumLess(a, b) == a[1] < b[1] \/ (a[1] = b[1] /\ a[2] < b[2])

NumLeq(a, b) == a = b \/ NumLess(a, b)

\* x / y in units of 1 / d, for d a multiple of y.
Frac(x, y, d) == <<0, (x * (d \div Abs(y))) * (IF y < 0 THEN -1 ELSE 1)>>

\* probs[min_probs_idx] = 99999999999
Sentinel == <<1, 0>>

(***************************************************************************)
(* sorted(range(len(fitness)), key=lambda k: fitness[k]): a stable          *)
(* ascending sort of the indices.                                           *)
(***************************************************************************)
RECURSIVE InsertByKey(_, _, _)
InsertByKey(k, s, key) ==
    IF s = <<>> THEN <<k>>
    ELSE IF At(key, k) < At(key, Head(s)) THEN <<k>> \o s
    ELSE <<Head(s)>> \o InsertByKey(k, Tail(s), key)

RECURSIVE SortedUpTo(_, _)
SortedUpTo(n, key) ==
    IF n = 0 THEN <<>> ELSE InsertByKey(n - 1, SortedUpTo(n - 1, key), key)

sorted_range(key) == SortedUpTo(Len(key), key)

(***************************************************************************)
(* numpy.empty((num_parents, ...)): every row is uninitialised until it is  *)
(* written (the empty row marks it); a row never written holds whatever     *)
(* the allocation held.                                                     *)
(***************************************************************************)
Uninit == <<>>

GeneValues == {0, 1}

Rows == {<<g>> : g \in GeneValues}

empty_parents(n) == [i \in 1..n |-> Uninit]

\* The arrays a caller may see for a buffer some of whose rows were never written.
Returned(buf) ==
    {a \in [1..Len(buf) -> Rows \cup ({buf[i] : i \in 1..Len(buf)} \ {Uninit})] :
        \A i \in 1..Len(buf) : buf[i] # Uninit => a[i] = buf[i]}

\* parents[parent_num, :] = self.population[idx, :].copy()
CopyRows(idxs) == [i \in 1..Len(idxs) |-> At(population, idxs[i])]

(***************************************************************************)
(* steady_state_selection                                                   *)
(***************************************************************************)
\* fitness_sorted without fitness_sorted.reverse()
steady_state_sorted_ascending(fit) == sorted_range(fit)

\* sorted(..., reverse=True) in place of sorted(...) followed by reverse()
steady_state_sorted_reverse_flag(fit) ==
    sorted_range([i \in 1..Len(fit) |-> 0 - fit[i]])

steady_state_sorted(fit) == Reverse(sorted_range(fit))

steady_state_indices(fit, n) == SubSeq(steady_state_sorted(fit), 1, n)

Pending == selector = "none" /\ outcome = "pending"

call_args == <<fitness, fitness_ndim, num_parents>>

NoWheel == /\ probs_in' = <<>> /\ probs' = <<>> /\ probs_start' = <<>>
           /\ probs_end' = <<>> /\ order' = <<>> /\ den' = 1

NoFronts == /\ pareto_fronts' = <<>> /\ solutions_fronts_indices' = <<>>
            /\ crowding' = <<>>

steady_state_selection ==
    /\ Pending
    /\ fitness_ndim = 1
    /\ selector' = "steady_state_selection"
    /\ outcome' = "returned"
    /\ parents_indices' = steady_state_indices(fitness, num_parents)
    /\ parents' = CopyRows(steady_state_indices(fitness, num_parents))
    /\ rand' = <<>>
    /\ NoWheel
    /\ NoFronts
    /\ UNCHANGED <<instance_vars, call_args>>

(***************************************************************************)
(* wheel_cumulative_probs: the loop that builds the cumulative wheel.  The  *)
(* same loop is written inline in stochastic_universal_selection.           *)
(***************************************************************************)
Zeros(n) == [i \in 1..n |-> Zero]

\* numpy.where(probs == numpy.min(probs))[0][0], as a position 1..Len(p)
min_probs_idx(p) ==
    CHOOSE i \in 1..Len(p) :
        /\ \A j \in 1..Len(p) : NumLeq(p[i], p[j])
        /\ \A j \in 1..(i - 1) : p[j] # p[i]

\* the range start taken after curr was advanced
wheel_step_start_late(w) ==
    LET i == min_probs_idx(w.probs)
        c == NumAdd(w.curr, w.probs[i])
    IN  [probs |-> [w.probs EXCEPT ![i] = Sentinel],
         probs_start |-> [w.probs_start EXCEPT ![i] = c],
         probs_end |-> [w.probs_end EXCEPT ![i] = c],
         curr |-> c,
         order |-> Append(w.order, i - 1)]

wheel_step(w) ==
    LET i == min_probs_idx(w.probs)
        c == NumAdd(w.curr, w.probs[i])
    IN  [probs |-> [w.probs EXCEPT ![i] = Sentinel],
         probs_start |-> [w.probs_start EXCEPT ![i] = w.curr],
         probs_end |-> [w.probs_end EXCEPT ![i] = c],
         curr |-> c,
         order |-> Append(w.order, i - 1)]

RECURSIVE wheel_loop(_, _)
wheel_loop(k, w) == IF k = 0 THEN w ELSE wheel_loop(k - 1, wheel_step(w))

wheel_cumulative_probs(p) ==
    wheel_loop(Len(p), [probs |-> p, probs_start |-> Zeros(Len(p)),
                        probs_end |-> Zeros(Len(p)), curr |-> Zero,
                        order |-> <<>>])

\* The helper called on its own: probs is the caller's array, consumed in place.
wheel_cumulative_probs_call ==
    /\ Pending
    /\ probs # <<>>
    /\ LET w == wheel_cumulative_probs(probs)
       IN  /\ probs' = w.probs
           /\ probs_start' = w.probs_start
           /\ probs_end' = w.probs_end
           /\ order' = w.order
    /\ selector' = "wheel_cumulative_probs"
    /\ outcome' = "returned"
    /\ parents' = empty_parents(num_parents)
    /\ UNCHANGED <<instance_vars, call_args, parents_indices,
                   probs_in, den, rand>>
    /\ NoFronts

(***************************************************************************)
(* The loop shared by the wheel selectors: each point selects the first     *)
(* idx whose range [probs_start[idx], probs_end[idx]) holds it, if any.     *)
(***************************************************************************)
\* rand_prob <= probs_end[idx] in place of rand_prob < probs_end[idx]
InRangeClosed(u, idx, ps, pe) == NumLeq(At(ps, idx), u) /\ NumLeq(u, At(pe, idx))

InRange(u, idx, ps, pe) == NumLeq(At(ps, idx), u) /\ NumLess(u, At(pe, idx))

Hits(u, ps, pe) == {idx \in Range0(Len(ps)) : InRange(u, idx, ps, pe)}

\* for parent_num in range(num_parents): ... for idx in range(probs.shape[0]): ...
\* r is <<parents, parents_indices>>; to[idx] is the population index of slot idx.
RECURSIVE spin(_, _, _, _, _, _)
spin(parent_num, points, ps, pe, to, r) ==
    IF parent_num = Len(points) THEN r
    ELSE LET h == Hits(At(points, parent_num), ps, pe)
         IN  IF h = {} THEN spin(parent_num + 1, points, ps, pe, to, r)
             ELSE spin(parent_num + 1, points, ps, pe, to,
                       <<[r[1] EXCEPT ![parent_num + 1] =
                                        At(population, At(to, Min(h)))],
                         Append(r[2], At(to, Min(h)))>>)

Identity(n) == [i \in 1..n |-> i - 1]

Points(r) == [i \in 1..Len(r) |-> <<0, r[i]>>]

(***************************************************************************)
(* roulette_wheel_selection                                                 *)
(***************************************************************************)
\* The draws of a call fall on the grid k / (den * Resolution) of [0, 1).
Resolution == 1

\* The model follows a wheel call of at most MaxSpins independent draws.
MaxSpins == 1

fitness_sum_is_zero(fit) == SumSeq(fit) = 0

\* the sum tested only after a random number was drawn
RaiseAfterDraw(name) ==
    /\ selector' = name
    /\ outcome' = "ZeroDivisionError"
    /\ rand' = <<0>>
    /\ UNCHANGED <<instance_vars, call_args, parents,
                   parents_indices, probs_in, probs, probs_start, probs_end,
                   order, den, pareto_fronts, solutions_fronts_indices,
                   crowding>>

RaiseZeroDivisionError(name) ==
    /\ selector' = name
    /\ outcome' = "ZeroDivisionError"
    /\ UNCHANGED <<instance_vars, call_args, parents,
                   parents_indices, probs_in, probs, probs_start, probs_end,
                   order, den, rand, pareto_fronts, solutions_fronts_indices,
                   crowding>>

roulette_probs(fit, d) == [i \in 1..Len(fit) |-> Frac(fit[i], SumSeq(fit), d)]

roulette_wheel_selection ==
    /\ Pending
    /\ fitness_ndim = 1
    /\ num_parents <= MaxSpins
    /\ IF fitness_sum_is_zero(fitness)
       THEN RaiseZeroDivisionError("roulette_wheel_selection")
       ELSE LET d == Abs(SumSeq(fitness)) * Resolution
                p == roulette_probs(fitness, d)
                w == wheel_cumulative_probs(p)
            IN  \E r \in [1..num_parents -> Range0(d)] :
                  LET res == spin(0, Points(r), w.probs_start, w.probs_end,
                                  Identity(Len(p)),
                                  <<empty_parents(num_parents), <<>>>>)
                  IN  /\ selector' = "roulette_wheel_selection"
                      /\ outcome' = "returned"
                      /\ den' = d
                      /\ probs_in' = p
                      /\ probs' = p
                      /\ probs_start' = w.probs_start
                      /\ probs_end' = w.probs_end
                      /\ order' = w.order
                      /\ rand' = r
                      /\ parents' \in Returned(res[1])
                      /\ parents_indices' = res[2]
                      /\ NoFronts
                      /\ UNCHANGED <<instance_vars, call_args>>

(***************************************************************************)
(* stochastic_universal_selection                                           *)
(***************************************************************************)
\* the pointers counted from 1 in place of 0
sus_pointers_from_one(first_pointer, pointers_distance, n) ==
    [i \in 1..n |-> <<0, first_pointer + i * pointers_distance>>]

\* every pointer left at first_pointer
sus_pointers_not_advanced(first_pointer, pointers_distance, n) ==
    [i \in 1..n |-> <<0, first_pointer>>]

\* rand_pointer = first_pointer + parent_num*pointers_distance
sus_pointers(first_pointer, pointers_distance, n) ==
    [i \in 1..n |-> <<0, first_pointer + (i - 1) * pointers_distance>>]

\* probs bound to the caller's fitness array, so that the loop's writes of
\* the sentinel land in it
fitness_after_wheel_aliased(fit, w) ==
    [i \in 1..Len(fit) |-> IF w.probs[i] = Sentinel THEN Sentinel[1] ELSE fit[i]]

\* probs = fitness / fitness_sum allocates a new array: the loop's writes
\* probs[min_probs_idx] = 99999999999 land in it, and the caller's fitness
\* holds after the loop what it held before.
fitness_after_wheel(fit, w) == fit

stochastic_universal_selection ==
    /\ Pending
    /\ fitness_ndim = 1
    /\ IF fitness_sum_is_zero(fitness)
       THEN RaiseZeroDivisionError("stochastic_universal_selection")
       ELSE LET d == Abs(SumSeq(fitness)) * num_parents_mating * Resolution
                p == roulette_probs(fitness, d)
                w == wheel_cumulative_probs(p)
                pointers_distance == d \div num_parents_mating
            IN  \E first_pointer \in Range0(pointers_distance) :
                  LET res == spin(0, sus_pointers(first_pointer,
                                                  pointers_distance, num_parents),
                                  w.probs_start, w.probs_end, Identity(Len(p)),
                                  <<empty_parents(num_parents), <<>>>>)
                  IN  /\ selector' = "stochastic_universal_selection"
                      /\ outcome' = "returned"
                      /\ den' = d
                      /\ probs_in' = p
                      /\ probs' = w.probs
                      /\ probs_start' = w.probs_start
                      /\ probs_end' = w.probs_end
                      /\ order' = w.order
                      /\ rand' = <<first_pointer>>
                      /\ parents' \in Returned(res[1])
                      /\ parents_indices' = res[2]
                      /\ NoFronts
                      /\ fitness' = fitness_after_wheel(fitness, w)
                      /\ UNCHANGED <<instance_vars, fitness_ndim, num_parents>>

(***************************************************************************)
(* rank_selection                                                           *)
(***************************************************************************)
\* rank = numpy.arange(1, self.sol_per_pop+1)
rank_of_slot(n) == [i \in 1..n |-> i]

rank_probs(n, d) ==
    [i \in 1..n |-> Frac(rank_of_slot(n)[i], SumSeq(rank_of_slot(n)), d)]

\* the slot idx returned in place of fitness_sorted[idx]
rank_unmapped(fit) == [i \in 1..Len(fit) |-> i - 1]

\* mapped_idx = fitness_sorted[idx]
rank_mapped(fit) == sorted_range(fit)

rank_selection ==
    /\ Pending
    /\ fitness_ndim = 1
    /\ num_parents <= MaxSpins
    /\ LET d == SumSeq(rank_of_slot(sol_per_pop)) * Resolution
           p == rank_probs(sol_per_pop, d)
           w == wheel_cumulative_probs(p)
       IN  \E r \in [1..num_parents -> Range0(d)] :
             LET res == spin(0, Points(r), w.probs_start, w.probs_end,
                             rank_mapped(fitness),
                             <<empty_parents(num_parents), <<>>>>)
             IN  /\ selector' = "rank_selection"
                 /\ outcome' = "returned"
                 /\ den' = d
                 /\ probs_in' = p
                 /\ probs' = p
                 /\ probs_start' = w.probs_start
                 /\ probs_end' = w.probs_end
                 /\ order' = w.order
                 /\ rand' = r
                 /\ parents' \in Returned(res[1])
                 /\ parents_indices' = res[2]
                 /\ NoFronts
                 /\ UNCHANGED <<instance_vars, call_args>>

(***************************************************************************)
(* random_selection                                                         *)
(***************************************************************************)
\* what random_selection returns for the indices it drew
random_result(rand_indices) == <<CopyRows(rand_indices), rand_indices>>

random_selection ==
    /\ Pending
    /\ fitness_ndim = 1
    /\ \E rand_indices \in [1..num_parents -> Range0(Len(fitness))] :
         /\ rand' = rand_indices
         /\ parents' = random_result(rand_indices)[1]
         /\ parents_indices' = random_result(rand_indices)[2]
    /\ selector' = "random_selection"
    /\ outcome' = "returned"
    /\ NoWheel
    /\ NoFronts
    /\ UNCHANGED <<instance_vars, call_args>>

(***************************************************************************)
(* tournament_selection                                                     *)
(***************************************************************************)
MaxOf(S) == CHOOSE x \in S : \A y \in S : x >= y

\* The model follows a tournament call of at most MaxDraws drawn candidates.
MaxDraws == 4

\* the last of the drawn candidates that hold the maximum
selected_parent_pos_last(fit, rand_indices) ==
    LET K_fitnesses == [k \in 1..Len(rand_indices) |-> At(fit, rand_indices[k])]
        best == MaxOf({K_fitnesses[k] : k \in 1..Len(rand_indices)})
    IN  MaxOf({k \in 1..Len(rand_indices) : K_fitnesses[k] = best})

\* numpy.where(K_fitnesses == numpy.max(K_fitnesses))[0][0], as a position
selected_parent_pos(fit, rand_indices) ==
    LET K_fitnesses == [k \in 1..Len(rand_indices) |-> At(fit, rand_indices[k])]
        best == MaxOf({K_fitnesses[k] : k \in 1..Len(rand_indices)})
    IN  Min({k \in 1..Len(rand_indices) : K_fitnesses[k] = best})

tournament_winner(fit, rand_indices) ==
    rand_indices[selected_parent_pos(fit, rand_indices)]

tournament_selection ==
    /\ Pending
    /\ fitness_ndim = 1
    /\ num_parents * K_tournament <= MaxDraws
    /\ \E draws \in [1..num_parents -> [1..K_tournament -> Range0(Len(fitness))]] :
         LET won == [i \in 1..num_parents |-> tournament_winner(fitness, draws[i])]
         IN  /\ rand' = draws
             /\ parents_indices' = won
             /\ parents' = CopyRows(won)
    /\ selector' = "tournament_selection"
    /\ outcome' = "returned"
    /\ NoWheel
    /\ NoFronts
    /\ UNCHANGED <<instance_vars, call_args>>

(***************************************************************************)
(* nsga2.non_dominated_sorting and nsga2.crowding_distance: the             *)
(* collaborators of the two NSGA-II selectors.  A front is the sequence of  *)
(* its solution indices.                                                    *)
(***************************************************************************)
dominates(fit, a, b) ==
    /\ \A k \in 1..Len(At(fit, a)) : At(fit, a)[k] >= At(fit, b)[k]
    /\ \E k \in 1..Len(At(fit, a)) : At(fit, a)[k] > At(fit, b)[k]

RECURSIVE SetToSeq(_)
SetToSeq(S) == IF S = {} THEN <<>> ELSE <<Min(S)>> \o SetToSeq(S \ {Min(S)})

non_dominated(fit, R) == {i \in R : \A j \in R : ~dominates(fit, j, i)}

RECURSIVE fronts_of(_, _)
fronts_of(fit, R) ==
    IF R = {} THEN <<>>
    ELSE <<SetToSeq(non_dominated(fit, R))>>
            \o fronts_of(fit, R \ non_dominated(fit, R))

\* returns <<pareto_fronts, solutions_fronts_indices>>
non_dominated_sorting(fit) ==
    LET fronts == fronts_of(fit, Range0(Len(fit)))
    IN  <<fronts,
          [i \in 1..Len(fit) |->
              (CHOOSE f \in 1..Len(fronts) : (i - 1) \in Elems(fronts[f])) - 1]>>

\* The summed crowding distances a call may compute: one per solution.
DistValues == {0, 1}

CrowdingDistances(n) == [1..n -> DistValues]

\* crowding_dist_pop_sorted_indices: the front in descending distance order
CrowdingOrders(front, dist) ==
    {o \in [1..Len(front) -> Elems(front)] :
        /\ Elems(o) = Elems(front)
        /\ \A i \in 1..(Len(front) - 1) : At(dist, o[i]) >= At(dist, o[i + 1])}

(***************************************************************************)
(* tournament_selection_nsga2                                               *)
(***************************************************************************)
\* The tournament of one parent: the first two drawn candidates decide it.
\* coin is rand_num < 0.5.
nsga2_tournament_winner(current_indices, fronts, sfi, dist, coin) ==
    LET a == current_indices[1]
        b == current_indices[2]
    IN  IF At(sfi, a) < At(sfi, b) THEN a
        ELSE IF At(sfi, a) > At(sfi, b) THEN b
        ELSE IF Len(At(fronts, At(sfi, a))) = 1 THEN a
        ELSE IF At(dist, a) > At(dist, b) THEN a
        ELSE IF At(dist, b) > At(dist, a) THEN b
        ELSE IF coin THEN a ELSE b

\* Whether the tournament of current_indices reaches the crowding distance,
\* and whether it reaches the random tie-break.
UsesCrowding(current_indices, fronts, sfi) ==
    /\ At(sfi, current_indices[1]) = At(sfi, current_indices[2])
    /\ Len(At(fronts, At(sfi, current_indices[1]))) > 1

UsesCoin(current_indices, fronts, sfi, dist) ==
    /\ UsesCrowding(current_indices, fronts, sfi)
    /\ At(dist, current_indices[1]) = At(dist, current_indices[2])

RaiseError(name, error) ==
    /\ selector' = name
    /\ outcome' = error
    /\ parents' = <<>>
    /\ parents_indices' = <<>>
    /\ NoWheel

tournament_selection_nsga2 ==
    /\ Pending
    /\ fitness_ndim = 2
    /\ num_parents * K_tournament <= MaxDraws
    /\ LET nds == non_dominated_sorting(fitness)
       IN  /\ pareto_fronts' = nds[1]
           /\ solutions_fronts_indices' = nds[2]
           /\ \E rand_indices \in
                    [1..num_parents -> [1..K_tournament -> Range0(Len(nds[2]))]] :
                IF K_tournament < 2
                THEN \* parent_fronts_indices[1] is out of bounds
                     /\ RaiseError("tournament_selection_nsga2", "IndexError")
                     /\ rand' = <<rand_indices, <<>>>>
                     /\ crowding' = <<>>
                ELSE LET used == \E p \in 1..num_parents :
                                    UsesCrowding(rand_indices[p], nds[1], nds[2])
                     IN  \E dist \in (IF used THEN CrowdingDistances(Len(nds[2]))
                                      ELSE {<<>>}) :
                         \E coins \in {c \in [1..num_parents -> BOOLEAN] :
                                         \A p \in 1..num_parents :
                                            \/ c[p]
                                            \/ UsesCoin(rand_indices[p], nds[1],
                                                        nds[2], dist)} :
                           LET won == [p \in 1..num_parents |->
                                         nsga2_tournament_winner(rand_indices[p],
                                             nds[1], nds[2], dist, coins[p])]
                           IN  /\ crowding' = dist
                               /\ rand' = <<rand_indices, coins>>
                               /\ parents_indices' = won
                               /\ parents' = CopyRows(won)
                               /\ selector' = "tournament_selection_nsga2"
                               /\ outcome' = "returned"
                               /\ NoWheel
    /\ UNCHANGED <<instance_vars, call_args>>

(***************************************************************************)
(* nsga2_selection                                                          *)
(***************************************************************************)
Unbound == -1

\* for sol_idx in range(len(current_pareto_front)): parents[sol_idx, :] = ...
RECURSIVE take_front(_, _, _)
take_front(front, sol_idx, w) ==
    IF sol_idx = Len(front) THEN w
    ELSE take_front(front, sol_idx + 1,
            [w EXCEPT !.parents[sol_idx + 1] = At(population, At(front, sol_idx)),
                      !.parents_indices = Append(@, At(front, sol_idx)),
                      !.sol_idx = sol_idx])

\* for selected_solution_idx in crowding_dist_pop_sorted_indices[0:n]:
\*     parents[sol_idx, :] = ...       with the sol_idx the loop above left
RECURSIVE take_sorted(_, _, _)
take_sorted(sorted, k, w) ==
    IF k = Len(sorted) \/ w.error THEN w
    ELSE IF w.sol_idx = Unbound THEN [w EXCEPT !.error = TRUE]
    ELSE take_sorted(sorted, k + 1,
            [w EXCEPT !.parents[w.sol_idx + 1] = At(population, At(sorted, k)),
                      !.parents_indices = Append(@, At(sorted, k))])

\* The front that is only partly taken, as a position of fronts (0 if none).
boundary_front(fronts, n) ==
    LET before(f) == SumSeq([g \in 1..(f - 1) |-> Len(fronts[g])])
        cut == {f \in 1..Len(fronts) :
                   before(f) < n /\ n < before(f) + Len(fronts[f])}
    IN  IF cut = {} THEN 0 ELSE Min(cut)

\* while num_remaining_parents != 0 and pareto_front_idx < len(pareto_fronts):
\* sorted is crowding_dist_pop_sorted_indices of the front partly taken.
RECURSIVE nsga2_walk(_, _, _, _)
nsga2_walk(fronts, pareto_front_idx, sorted, w) ==
    IF w.error \/ w.num_remaining_parents = 0 \/ pareto_front_idx >= Len(fronts)
    THEN w
    ELSE LET current_pareto_front == At(fronts, pareto_front_idx)
         IN  IF w.num_remaining_parents >= Len(current_pareto_front)
             THEN nsga2_walk(fronts, pareto_front_idx + 1, sorted,
                     [take_front(current_pareto_front, 0, w)
                        EXCEPT !.num_remaining_parents =
                                  @ - Len(current_pareto_front)])
             ELSE nsga2_walk(fronts, pareto_front_idx + 1, sorted,
                     [take_sorted(SubSeq(sorted, 1, w.num_remaining_parents), 0, w)
                        EXCEPT !.num_remaining_parents = 0])

nsga2_start(n) ==
    [parents |-> empty_parents(n), parents_indices |-> <<>>,
     num_remaining_parents |-> n, sol_idx |-> Unbound, error |-> FALSE]

nsga2_selection ==
    /\ Pending
    /\ fitness_ndim = 2
    /\ LET nds == non_dominated_sorting(fitness)
           b == boundary_front(nds[1], num_parents)
       IN  /\ pareto_fronts' = nds[1]
           /\ solutions_fronts_indices' = nds[2]
           /\ \E dist \in (IF b = 0 THEN {<<>>}
                            ELSE CrowdingDistances(Len(nds[2]))) :
                /\ \E sorted \in (IF b = 0 THEN {<<>>}
                                  ELSE CrowdingOrders(nds[1][b], dist)) :
                     LET w == nsga2_walk(nds[1], 0, sorted,
                                         nsga2_start(num_parents))
                     IN  /\ crowding' = dist
                         /\ rand' = sorted
                         /\ IF w.error
                            THEN RaiseError("nsga2_selection", "UnboundLocalError")
                            ELSE /\ selector' = "nsga2_selection"
                                 /\ outcome' = "returned"
                                 /\ parents' \in Returned(w.parents)
                                 /\ parents_indices' = w.parents_indices
                                 /\ NoWheel
    /\ UNCHANGED <<instance_vars, call_args>>

(***************************************************************************)
(* The state before a call.                                                 *)
(***************************************************************************)
IdPopulation(n) == [i \in 1..n |-> <<i - 1>>]

Vectors(n, lo, hi) == [1..n -> lo..hi]

InitCall ==
    /\ selector = "none"
    /\ outcome = "pending"
    /\ parents = <<>>
    /\ parents_indices = <<>>
    /\ probs_start = <<>>
    /\ probs_end = <<>>
    /\ order = <<>>
    /\ den = 1
    /\ rand = <<>>
    /\ pareto_fronts = <<>>
    /\ solutions_fronts_indices = <<>>
    /\ crowding = <<>>

InitInstance(n) ==
    /\ population = IdPopulation(n)
    /\ sol_per_pop = n

NoProbs == probs_in = <<>> /\ probs = <<>>

\* steady_state_selection alone
MaxPopSteady == 5
MaxFitSteady == 5

InitSteady ==
    /\ InitCall
    /\ NoProbs
    /\ \E n \in 1..MaxPopSteady :
        /\ InitInstance(n)
        /\ fitness_ndim = 1
        /\ fitness \in Vectors(n, 1, MaxFitSteady)
        /\ num_parents \in 1..n
    /\ num_parents_mating = num_parents
    /\ K_tournament = 2

NextSteady == steady_state_selection

SpecSteady == InitSteady /\ [][NextSteady]_vars

\* wheel_cumulative_probs alone, on vectors of any magnitude
MaxPopWheel == 3
MaxLoWheel == 2
MaxHiWheel == 1

InitWheel ==
    /\ InitCall
    /\ \E n \in 1..MaxPopWheel :
        /\ InitInstance(n)
        /\ fitness_ndim = 1
        /\ fitness = [i \in 1..n |-> 0]
        /\ probs_in \in [1..n -> (0..MaxHiWheel) \X (0..MaxLoWheel)]
        /\ num_parents \in 1..n
    /\ probs = probs_in
    /\ num_parents_mating = num_parents
    /\ K_tournament = 2

NextWheel == wheel_cumulative_probs_call

SpecWheel == InitWheel /\ [][NextWheel]_vars

\* roulette_wheel_selection and stochastic_universal_selection
MaxPopRoulette == 3
MaxFitRoulette == 1

InitRoulette ==
    /\ InitCall
    /\ NoProbs
    /\ \E n \in 1..MaxPopRoulette :
        /\ InitInstance(n)
        /\ fitness_ndim = 1
        /\ fitness \in Vectors(n, -1, MaxFitRoulette)
        /\ num_parents \in 1..n
    /\ num_parents_mating = num_parents
    /\ K_tournament = 2

NextRoulette == roulette_wheel_selection \/ stochastic_universal_selection

SpecRoulette == InitRoulette /\ [][NextRoulette]_vars

\* rank_selection
MaxPopRank == 3
MaxFitRank == 2

InitRank ==
    /\ InitCall
    /\ NoProbs
    /\ \E n \in 1..MaxPopRank :
        /\ InitInstance(n)
        /\ fitness_ndim = 1
        /\ fitness \in Vectors(n, 0, MaxFitRank)
        /\ num_parents \in 1..n
    /\ num_parents_mating = num_parents
    /\ K_tournament = 2

NextRank == rank_selection

SpecRank == InitRank /\ [][NextRank]_vars

\* tournament_selection and random_selection
MaxPopTournament == 3
MaxFitTournament == 2
MaxKTournament == 2

InitTournament ==
    /\ InitCall
    /\ NoProbs
    /\ \E n \in 1..MaxPopTournament :
        /\ InitInstance(n)
        /\ fitness_ndim = 1
        /\ fitness \in Vectors(n, 0, MaxFitTournament)
        /\ num_parents \in 1..n
    /\ num_parents_mating = num_parents
    /\ K_tournament \in 1..MaxKTournament

NextTournament == tournament_selection \/ random_selection

SpecTournament == InitTournament /\ [][NextTournament]_vars

\* the two NSGA-II selectors
MaxPopNsga2 == 3
MaxKNsga2 == 3

\* The fitness of a solution under two objectives.
ObjectiveRows == [1..2 -> {0, 1}]

Matrices(n) == [1..n -> ObjectiveRows]

InitNsga2 ==
    /\ InitCall
    /\ NoProbs
    /\ \E n \in 1..MaxPopNsga2 :
        /\ InitInstance(n)
        /\ fitness_ndim = 2
        /\ fitness \in Matrices(n)
        /\ num_parents \in 1..n
    /\ num_parents_mating = num_parents
    /\ K_tournament \in 1..MaxKNsga2

NextNsga2 == tournament_selection_nsga2 \/ nsga2_selection

SpecNsga2 == InitNsga2 /\ [][NextNsga2]_vars

\* every selector
MaxPop == 2
MaxFit == 1
MaxK == 2

Init ==
    /\ InitCall
    /\ NoProbs
    /\ \E n \in 1..MaxPop :
        /\ InitInstance(n)
        /\ \/ fitness_ndim = 1 /\ fitness \in Vectors(n, -1, MaxFit)
           \/ fitness_ndim = 2 /\ fitness \in Matrices(n)
        /\ num_parents \in 1..n
        /\ num_parents_mating \in 1..n
    /\ K_tournament \in 1..MaxK

Next ==
    \/ steady_state_selection
    \/ rank_selection
    \/ random_selection
    \/ tournament_selection
    \/ roulette_wheel_selection
    \/ stochastic_universal_selection
    \/ tournament_selection_nsga2
    \/ nsga2_selection

Spec == Init /\ [][Next]_vars

(***************************************************************************)
(* Properties.                                                              *)
(***************************************************************************)
Done(name) == selector = name /\ outcome = "returned"

N == Len(population)

NonNegative(fit) == \A i \in 1..Len(fit) : fit[i] >= 0

Selectors ==
    {"steady_state_selection", "rank_selection", "random_selection",
     "tournament_selection", "roulette_wheel_selection",
     "stochastic_universal_selection", "tournament_selection_nsga2",
     "nsga2_selection"}

\* The caller contract of a selector call.
Contract ==
    /\ N >= 1
    /\ Len(fitness) = N
    /\ sol_per_pop = N
    /\ num_parents \in 1..N
    /\ selector \in {"roulette_wheel_selection", "stochastic_universal_selection"}
          => NonNegative(fitness) /\ SumSeq(fitness) > 0
    /\ selector = "stochastic_universal_selection"
          => num_parents_mating = num_parents
    /\ selector \in {"tournament_selection", "tournament_selection_nsga2"}
          => K_tournament >= 2

Aligned ==
    \A i \in 1..num_parents :
        /\ i <= Len(parents) /\ i <= Len(parents_indices)
        /\ parents[i] = At(population, parents_indices[i])

\* C1: after a successful call of any selector within the caller contract, row i
\* of the returned parents is the population row at the i-th returned index, for
\* every i below num_parents.
C1_ParentsAlignedWithIndices ==
    (selector \in Selectors /\ outcome = "returned" /\ Contract) => Aligned

\* The same for the selectors other than nsga2_selection.
AlignedOutsideNsga2Selection ==
    (/\ selector \in Selectors \ {"nsga2_selection"}
     /\ outcome = "returned"
     /\ Contract) => Aligned

\* C2: a successful call within the caller contract returns exactly num_parents
\* parents and exactly num_parents indices.
C2_ReturnsNumParents ==
    (selector \in Selectors /\ outcome = "returned" /\ Contract) =>
        /\ Len(parents) = num_parents
        /\ Len(parents_indices) = num_parents

C2_Witness ==
    /\ Done("stochastic_universal_selection")
    /\ Contract
    /\ num_parents = 2
    /\ fitness = <<0, 1>>
    /\ parents_indices = <<1, 1>>

\* C3: every tournament of tournament_selection_nsga2 selects one of its K
\* candidates, one whose front index is the minimum over all K candidates.
C3_LowestFrontOfAllCandidatesWins ==
    Done("tournament_selection_nsga2") =>
        \A p \in 1..num_parents :
            /\ parents_indices[p] \in Elems(rand[1][p])
            /\ \A k \in 1..K_tournament :
                  At(solutions_fronts_indices, parents_indices[p])
                     <= At(solutions_fronts_indices, rand[1][p][k])

FrontsBefore(f) == SumSeq([g \in 1..(f - 1) |-> Len(pareto_fronts[g])])

RECURSIVE Flatten(_)
Flatten(ss) == IF ss = <<>> THEN <<>> ELSE Head(ss) \o Flatten(Tail(ss))

WholeFronts ==
    SubSeq(pareto_fronts, 1,
           Cardinality({f \in 1..Len(pareto_fronts) :
                           FrontsBefore(f) + Len(pareto_fronts[f]) <= num_parents}))

FrontsInOrderThenMostCrowded ==
        /\ Len(parents_indices) = num_parents
        /\ SubSeq(parents_indices, 1, Len(Flatten(WholeFronts))) = Flatten(WholeFronts)
        /\ LET j == Len(WholeFronts) + 1
               taken == SubSeq(parents_indices, Len(Flatten(WholeFronts)) + 1,
                               num_parents)
           IN  taken # <<>> =>
                 /\ Elems(taken) \subseteq Elems(pareto_fronts[j])
                 /\ Cardinality(Elems(taken)) = Len(taken)
                 /\ \A i \in 1..(Len(taken) - 1) :
                       At(crowding, taken[i]) >= At(crowding, taken[i + 1])
                 /\ \A x \in Elems(taken) :
                       \A y \in Elems(pareto_fronts[j]) \ Elems(taken) :
                          At(crowding, x) >= At(crowding, y)

\* C4: nsga2_selection returns every member of the fronts that fit whole in the
\* quota, in front order, then the k members of the boundary front that come
\* first in descending crowding distance, and nothing of a later front.
C4_FrontsInOrderThenMostCrowded ==
    selector = "nsga2_selection" =>
        (outcome = "returned" /\ FrontsInOrderThenMostCrowded)

\* What nsga2_selection returns when it does return.
FrontsInOrderWhenReturned ==
    Done("nsga2_selection") => FrontsInOrderThenMostCrowded

\* C5: roulette_wheel_selection and stochastic_universal_selection called with a
\* fitness vector whose sum is zero (all zero, or mixed signs that cancel) end in
\* ZeroDivisionError with no random number drawn, no wheel built and no parents
\* or indices returned.
C5_ZeroSumRaisesFirst ==
    (/\ selector \in {"roulette_wheel_selection", "stochastic_universal_selection"}
     /\ SumSeq(fitness) = 0)
    => (/\ outcome = "ZeroDivisionError"
        /\ rand = <<>>
        /\ probs_in = <<>> /\ probs = <<>>
        /\ probs_start = <<>> /\ probs_end = <<>> /\ order = <<>>
        /\ parents = <<>> /\ parents_indices = <<>>)

C5_Witness ==
    /\ selector = "stochastic_universal_selection"
    /\ outcome = "ZeroDivisionError"
    /\ \E i \in 1..Len(fitness) : fitness[i] < 0
    /\ \E i \in 1..Len(fitness) : fitness[i] > 0

\* C6: steady_state_selection returns num_parents distinct indices in
\* non-increasing fitness order, every returned solution being at least as fit
\* as every solution not returned; fitness [3,1,4,1,5] with num_parents = 2
\* gives the indices [4, 2].
C6_SteadyStateTakesTheFittest ==
    Done("steady_state_selection") =>
        /\ Len(parents_indices) = num_parents
        /\ \A i, j \in 1..Len(parents_indices) :
              i < j => /\ parents_indices[i] # parents_indices[j]
                       /\ At(fitness, parents_indices[i])
                            >= At(fitness, parents_indices[j])
        /\ \A q \in Range0(N) \ Elems(parents_indices) :
              \A i \in 1..Len(parents_indices) :
                 At(fitness, parents_indices[i]) >= At(fitness, q)
        /\ (fitness = <<3, 1, 4, 1, 5>> /\ num_parents = 2)
              => parents_indices = <<4, 2>>

C6_Witness ==
    /\ Done("steady_state_selection")
    /\ fitness = <<3, 1, 4, 1, 5>>
    /\ num_parents = 2
    /\ parents_indices = <<4, 2>>

\* The ranges of the wheel, against the vector it was built from.
WheelWidths ==
    \A i \in 1..Len(probs_in) : NumSub(probs_end[i], probs_start[i]) = probs_in[i]

WheelDisjoint ==
    \A i, j \in 1..Len(probs_in) :
        i # j => \/ NumLeq(probs_end[i], probs_start[j])
                 \/ NumLeq(probs_end[j], probs_start[i])

WheelAssignedOnce ==
    /\ Len(order) = Len(probs_in)
    /\ Elems(order) = Range0(Len(probs_in))

WheelContiguous ==
    /\ Len(order) = Len(probs_in)
    /\ Len(order) > 0 => At(probs_start, order[1]) = Zero
    /\ \A k \in 1..(Len(order) - 1) :
          At(probs_start, order[k + 1]) = At(probs_end, order[k])

WheelSmallestFirst ==
    \A i, j \in 1..Len(probs_in) :
        NumLess(probs_in[i], probs_in[j]) => NumLeq(probs_end[i], probs_start[j])

WheelCorrect ==
    /\ WheelWidths
    /\ WheelDisjoint
    /\ WheelAssignedOnce
    /\ WheelContiguous
    /\ WheelSmallestFirst

BelowSentinel(p) == \A i \in 1..Len(p) : NumLess(p[i], Sentinel)

\* C7 as stated: for a non-negative vector of any magnitude the wheel gives every
\* index one range of its own width, the ranges disjoint, contiguous from 0 and
\* laid out smallest probability first.
C7_WheelAnyMagnitude ==
    Done("wheel_cumulative_probs") => WheelCorrect

\* C7 as amended: the same, for a non-negative vector whose entries are all
\* below the sentinel 99999999999.
C7_WheelBelowSentinel ==
    (Done("wheel_cumulative_probs") /\ BelowSentinel(probs_in)) => WheelCorrect

C7_Witness ==
    /\ Done("wheel_cumulative_probs")
    /\ probs_in = << <<0, 2>>, <<0, 0>>, <<0, 1>> >>
    /\ order = <<1, 2, 0>>
    /\ probs = <<Sentinel, Sentinel, Sentinel>>

\* C8: every tournament selects, among the K indices it drew, the first drawn of
\* those with the maximum fitness; with K = 1 the call returns what
\* random_selection returns for the same draws.
C8_TournamentFirstBest ==
    Done("tournament_selection") =>
        /\ Len(parents_indices) = num_parents
        /\ \A p \in 1..num_parents :
              \E k \in 1..K_tournament :
                 /\ parents_indices[p] = rand[p][k]
                 /\ \A m \in 1..K_tournament :
                       At(fitness, rand[p][m]) <= At(fitness, rand[p][k])
                 /\ \A m \in 1..(k - 1) :
                       At(fitness, rand[p][m]) < At(fitness, rand[p][k])
        /\ K_tournament = 1 =>
              <<parents, parents_indices>>
                 = random_result([p \in 1..num_parents |-> rand[p][1]])

C8_Witness ==
    /\ Done("tournament_selection")
    /\ K_tournament = 2
    /\ rand[1] = <<2, 0>>
    /\ At(fitness, 2) = At(fitness, 0)
    /\ parents_indices[1] = 2

\* C9: rank_selection gives rank 1 to the worst and rank N to the best solution
\* (equal fitness ranked by index), and a draw u selects the population index of
\* the solution whose rank r has (1+..+(r-1))/S <= u < (1+..+r)/S, S = N(N+1)/2;
\* solutions ordered alike are selected alike.
Triangle(r) == (r * (r + 1)) \div 2

RankOf(fit, x) ==
    1 + Cardinality({j \in Range0(Len(fit)) :
                        \/ At(fit, j) < At(fit, x)
                        \/ (At(fit, j) = At(fit, x) /\ j < x)})

\* Two vectors ordered like f: the number of distinct smaller values of each
\* entry, and f with its magnitudes changed.
OrderOnly(f) ==
    [i \in 1..Len(f) |-> Cardinality({f[j] : j \in {k \in 1..Len(f) : f[k] < f[i]}})]

Stretched(f) == [i \in 1..Len(f) |-> 7 * f[i] * f[i] * f[i] - 50]

SameOrder(f, g) ==
    /\ Len(f) = Len(g)
    /\ \A i, j \in 1..Len(f) : (f[i] < f[j]) <=> (g[i] < g[j])

C9_RankSelectsByRank ==
    Done("rank_selection") =>
        /\ den = Triangle(N) * Resolution
        /\ Len(parents_indices) = num_parents
        /\ \A p \in 1..num_parents :
              \E r \in 1..N :
                 /\ Triangle(r - 1) * Resolution <= rand[p]
                 /\ rand[p] < Triangle(r) * Resolution
                 /\ RankOf(fitness, parents_indices[p]) = r
        /\ \A g \in {OrderOnly(fitness), Stretched(fitness)} :
              SameOrder(fitness, g) /\ rank_mapped(g) = rank_mapped(fitness)

C9_Witness ==
    /\ Done("rank_selection")
    /\ fitness = <<2, 0, 1>>
    /\ rand = <<1>>
    /\ parents_indices = <<2>>

\* C10: roulette_wheel_selection on non-negative fitness of positive sum: every
\* draw selects the one index whose range, of width fitness_i / sum, holds it; a
\* solution of fitness 0 is never selected and one holding all the fitness always.
C10_RouletteSelectsTheRange ==
    (Done("roulette_wheel_selection") /\ NonNegative(fitness)) =>
        /\ Len(parents_indices) = num_parents
        /\ \A i \in 1..N :
              NumSub(probs_end[i], probs_start[i])
                 = <<0, fitness[i] * Resolution>>
        /\ \A p \in 1..num_parents :
              /\ {i \in Range0(N) :
                     /\ NumLeq(At(probs_start, i), <<0, rand[p]>>)
                     /\ NumLess(<<0, rand[p]>>, At(probs_end, i))}
                   = {parents_indices[p]}
              /\ At(fitness, parents_indices[p]) # 0
              /\ \A i \in Range0(N) :
                    At(fitness, i) = SumSeq(fitness) => parents_indices[p] = i

C10_Witness ==
    /\ Done("roulette_wheel_selection")
    /\ fitness = <<1, 0, 1>>
    /\ rand = <<1>>
    /\ parents_indices = <<2>>

\* C11: every selector call, whether it returns or raises, leaves the
\* population and the fitness input as they were: the sentinel written while
\* the cumulative wheel is built goes to a private probability vector, never
\* to the caller's fitness.
C11_InputsUntouched ==
    [][population' = population /\ fitness' = fitness]_vars

C11_Witness ==
    /\ Done("stochastic_universal_selection")
    /\ fitness = <<1, 0>>
    /\ probs = <<Sentinel, Sentinel>>
    /\ population = IdPopulation(2)

\* Where x stands in the sequence s.
PositionOf(s, x) == CHOOSE k \in 1..Len(s) : s[k] = x

\* Of two solutions of equal fitness, first is ranked ahead of second: if second
\* is returned then so is first, and earlier.
RankedAhead(first, second) ==
    second \in Elems(parents_indices) =>
        /\ first \in Elems(parents_indices)
        /\ PositionOf(parents_indices, first) < PositionOf(parents_indices, second)

\* C12 as stated: in steady_state_selection, of two solutions with equal
\* fitness the one with the lower original index is ranked ahead of the other,
\* in the order of the returned indices and at the cut-off at num_parents.
C12_LowerIndexAheadOnTies ==
    Done("steady_state_selection") =>
        \A i, j \in Range0(N) :
            (i < j /\ At(fitness, i) = At(fitness, j)) => RankedAhead(i, j)

\* C12 as amended: in steady_state_selection, of two solutions with equal
\* fitness the one with the higher original index is ranked ahead of the
\* other, in the order of the returned indices and at the cut-off at
\* num_parents.
C12_HigherIndexAheadOnTies ==
    Done("steady_state_selection") =>
        \A i, j \in Range0(N) :
            (i < j /\ At(fitness, i) = At(fitness, j)) => RankedAhead(j, i)

C12_Witness ==
    /\ Done("steady_state_selection")
    /\ fitness = <<2, 1, 2, 2>>
    /\ num_parents = 2
    /\ parents_indices = <<3, 2>>

\* How many times the solution i was selected.
TimesSelected(i) ==
    Cardinality({k \in 1..Len(parents_indices) : parents_indices[k] = i})

\* The pointer offset + k / n, for k = 0 .. n - 1, in units of 1 / den.
Pointer(k) == <<0, rand[1] + k * (den \div num_parents)>>

\* C13: stochastic_universal_selection with non-negative fitness of positive
\* sum and num_parents = num_parents_mating = n: for every offset in
\* [0, 1/n) the n pointers offset + k/n lie in [0, 1), each is mapped to the
\* one solution whose wheel range holds it, and a solution of probability
\* p = fitness / sum is selected floor(n * p) or ceil(n * p) times: never if
\* its fitness is zero, at least once if p >= 1/n.
C13_PointersSpreadEvenly ==
    (/\ Done("stochastic_universal_selection")
     /\ NonNegative(fitness)
     /\ SumSeq(fitness) > 0
     /\ num_parents = num_parents_mating) =>
        LET n == num_parents
            S == SumSeq(fitness)
        IN  /\ rand[1] * n < den
            /\ Len(parents_indices) = n
            /\ \A k \in Range0(n) :
                  /\ NumLeq(Zero, Pointer(k)) /\ NumLess(Pointer(k), <<0, den>>)
                  /\ {i \in Range0(N) :
                         /\ NumLeq(At(probs_start, i), Pointer(k))
                         /\ NumLess(Pointer(k), At(probs_end, i))}
                       = {At(parents_indices, k)}
            /\ \A i \in Range0(N) :
                  /\ TimesSelected(i) \in
                        {(n * At(fitness, i)) \div S,
                         (n * At(fitness, i) + S - 1) \div S}
                  /\ At(fitness, i) = 0 => TimesSelected(i) = 0
                  /\ n * At(fitness, i) >= S => TimesSelected(i) >= 1

C13_Witness ==
    /\ Done("stochastic_universal_selection")
    /\ num_parents_mating = 3
    /\ fitness = <<1, 0, 1>>
    /\ rand = <<1>>
    /\ parents_indices = <<0, 2, 2>>

====
